---- MODULE Spec2Model ----
(***************************************************************************)
(* Model of cronograma-mcp/main.py: the transient-artifact registry        *)
(* (file_registry), its reclamation sweep (cleanup_expired_files), the MCP *)
(* tool gerar_xlsx and the HTTP endpoint download_file.                    *)
(*                                                                         *)
(* The process runs two threads (main.py:573-597): the main thread serves  *)
(* MCP tool calls, a daemon thread serves HTTP.  Each thread handles one   *)
(* request at a time (the handlers contain no await), and the two threads  *)
(* interleave between any two accesses to the registry or the disk: the    *)
(* source takes no lock.  Each action below is one such access.            *)
(***************************************************************************)
EXTENDS Integers, Sequences, FiniteSets, TLC

\* ------------------------------------------------------------------ bounds
MaxTokens == 2      \* tokens generate_token can hand out in one run
MaxFiles  == 2      \* distinct artifact file names (project name + date)
MaxTime   == 3      \* last clock value (minutes)
MaxMacros == 2      \* macros in one payload
MaxMicros == 2      \* micros in one macro
MaxLeaves == 3      \* micros in one payload
MaxHours  == 2      \* largest hours value of a micro, in PerHour-ths
MaxDuration == 1600 \* largest hours value encoded on its own, in PerHour-ths
MaxGap    == 2      \* largest distance of two hours values encoded together

\* hours are counted in PerHour-ths of an hour: such values, their sums and
\* their products with 3600 are exact in binary floating point
PerHour == 64

\* TTL_MINUTES (main.py:45), scaled from 30 minutes to 1 clock tick
TTL_MINUTES == 1

\* MAX_ROWS (main.py:44), scaled from 500 rows to 5
MAX_ROWS == 5

Tokens  == 1..MaxTokens
\* a token generate_token never hands out
Forged == MaxTokens + 1
Files   == 1..MaxFiles
Threads == {"mcp", "http"}

VARIABLES
    file_registry,   \* main.py:53  token -> [filepath, expires_at]
    disk,            \* files that exist in OUTPUT_DIR
    now,             \* datetime.now()
    next_token,      \* the next token generate_token returns
    pc,              \* position of each thread in its handler
    sw_now,          \* cleanup_expired_files: now
    expired_tokens,  \* cleanup_expired_files: expired_tokens
    it_size,         \* dict iterator: size of the dict when it was created
    it_len,          \* dict iterator: items it still expects to yield
    it_pos,          \* dict iterator: next slot to look at
    cur,             \* cleanup_expired_files: info of the entry in hand
    del_pos,         \* cleanup_expired_files: position of the second loop
    payload,         \* gerar_xlsx: payload
    token,           \* download_file: token
    file_info,       \* download_file: file_info
    result,          \* what the handler returned to its caller
    exc,             \* the exception that ended the handler, if any
    issued,          \* history: every entry ever registered
    unlink_failed,   \* history: files whose unlink failed in the thread's sweep
    purged,          \* history: tokens removed by download_file (main.py:541)
    had_file,        \* history: download_file was called for an entry whose
                     \* file was on disk
    call_next,       \* history: next_token when the MCP tool was called
    args,            \* a function of main.py called on its own: its arguments
    retval           \* and what it returned

vars == <<file_registry, disk, now, next_token, pc, sw_now, expired_tokens,
          it_size, it_len, it_pos, cur, del_pos, payload, token, file_info, result,
          exc, issued, unlink_failed, purged, had_file, call_next, args,
          retval>>

history_vars == <<issued, purged, had_file, call_next>>

pure_vars == <<args, retval>>

process_vars == <<file_registry, disk, now, next_token, pc, sw_now,
                  expired_tokens, it_size, it_len, it_pos, cur, del_pos,
                  payload, token, file_info, result, exc, issued,
                  unlink_failed, purged, had_file, call_next>>

sweep_vars == <<sw_now, expired_tokens, it_size, it_len, it_pos, cur, del_pos,
                unlink_failed>>

NoInfo    == [filepath |-> 0, expires_at |-> 0]
NoPayload == [project |-> 0, verdict |-> "none"]
NoArgs    == [of |-> "none"]
NoRetval  == [fn |-> "none"]

\* what a handler hands back: the MCP result dict, or the HTTP response
NoResult        == [ok |-> FALSE, code |-> "none", detail |-> ""]
\* main.py:417-429
Generated       == [ok |-> TRUE, code |-> "OK", detail |-> ""]
\* main.py:196-202
ValidationError == [ok |-> FALSE, code |-> "VALIDATION_ERROR",
                    detail |-> "Erro de validacao no payload"]
\* main.py:189-194
MaxRowsExceeded == [ok |-> FALSE, code |-> "MAX_ROWS_EXCEEDED",
                    detail |-> "O cronograma excede o limite de linhas"]
\* main.py:470-480
Validated       == [ok |-> TRUE, code |-> "OK", detail |-> "Payload valido"]
\* main.py:438-443: the message carries str(e)
InternalError(e) == [ok |-> FALSE, code |-> "INTERNAL_ERROR",
                     detail |-> "Erro interno ao gerar cronograma: " \o e]
\* main.py:547-554
Served          == [ok |-> TRUE, code |-> "200", detail |-> ""]
\* main.py:533
NotFoundOrExpired == [ok |-> FALSE, code |-> "404",
                      detail |-> "Arquivo nao encontrado ou expirado"]
\* main.py:542
NotFoundOnDisk  == [ok |-> FALSE, code |-> "404",
                    detail |-> "Arquivo nao encontrado"]
\* an exception that leaves download_file: the framework answers 500
ServerError     == [ok |-> FALSE, code |-> "500", detail |-> "Internal Server Error"]

Other(t) == IF t = "mcp" THEN "http" ELSE "mcp"

\* the exceptions the registry accesses raise when the dict changed under them
DictChanged == "RuntimeError: dictionary changed size during iteration"
KeyError105 == "KeyError (main.py:105)"
KeyError535 == "KeyError (main.py:535)"
KeyError541 == "KeyError (main.py:541)"
MapErrors   == {DictChanged, KeyError105, KeyError535, KeyError541}
\* the delivery of a FileResponse whose file is gone
FileGone    == "RuntimeError: File at path does not exist"

\* dict operations on file_registry
Put(reg, k, e) == [x \in DOMAIN reg \cup {k} |-> IF x = k THEN e ELSE reg[x]]
Del(reg, k)    == [x \in DOMAIN reg \ {k} |-> reg[x]]
Size(reg)      == Cardinality(DOMAIN reg)

\* main.py:92  now > info["expires_at"]
IsExpired(n, info) == n > info.expires_at

InitProcess ==
    /\ file_registry = [x \in {} |-> NoInfo]
    /\ disk = {}
    /\ now = 0
    /\ next_token = 1
    /\ pc = [t \in Threads |-> "idle"]
    /\ sw_now = [t \in Threads |-> 0]
    /\ expired_tokens = [t \in Threads |-> <<>>]
    /\ it_size = [t \in Threads |-> 0]
    /\ it_len = [t \in Threads |-> 0]
    /\ it_pos = [t \in Threads |-> 0]
    /\ cur = [t \in Threads |-> NoInfo]
    /\ del_pos = [t \in Threads |-> 0]
    /\ payload = NoPayload
    /\ token = 0
    /\ file_info = NoInfo
    /\ result = [t \in Threads |-> NoResult]
    /\ exc = [t \in Threads |-> "none"]
    /\ issued = [x \in {} |-> NoInfo]
    /\ unlink_failed = [t \in Threads |-> {}]
    /\ purged = {}
    /\ had_file = FALSE
    /\ call_next = 0

Init ==
    /\ InitProcess
    /\ args = NoArgs
    /\ retval = NoRetval

\* ------------------------------------------------------------ control flow

\* the handler of thread t returns r; e is the exception that ended it
Finish(t, r, e) ==
    /\ pc' = [pc EXCEPT ![t] = "done"]
    /\ result' = [result EXCEPT ![t] = r]
    /\ exc' = [exc EXCEPT ![t] = e]

\* an exception e propagates out of the code of thread t: gerar_xlsx catches
\* it (main.py:436-443), download_file does not
Raise(t, e) ==
    Finish(t, IF t = "mcp" THEN InternalError(e) ELSE ServerError, e)

Goto(t, label) ==
    /\ pc' = [pc EXCEPT ![t] = label]
    /\ UNCHANGED <<result, exc>>

\* where cleanup_expired_files returns to (main.py:383, main.py:528)
AfterCleanup(t) == IF t = "mcp" THEN "g_validate" ELSE "f_lookup"

\* ---------------------------------------------------- cleanup_expired_files

\* main.py:88-91: now, expired_tokens = [], and the iterator of
\* file_registry.items()
cleanup_begin(t) ==
    /\ sw_now' = [sw_now EXCEPT ![t] = now]
    /\ expired_tokens' = [expired_tokens EXCEPT ![t] = <<>>]
    /\ it_size' = [it_size EXCEPT ![t] = Size(file_registry)]
    /\ it_len' = [it_len EXCEPT ![t] = Size(file_registry)]
    /\ it_pos' = [it_pos EXCEPT ![t] = 1]
    /\ del_pos' = [del_pos EXCEPT ![t] = 1]
    /\ UNCHANGED <<cur, unlink_failed>>

Min(S) == CHOOSE x \in S : \A y \in S : x <= y

\* main.py:91-93: one step of the dict iterator, and the expiry test.  The
\* iterator raises RuntimeError when the dict changed size since it was
\* created, or when it finds more items than the dict had then.
cleanup_next(t) ==
    /\ pc[t] = "sw_next"
    /\ LET rest == {k \in DOMAIN file_registry : k >= it_pos[t]} IN
       IF Size(file_registry) # it_size[t] \/ (rest # {} /\ it_len[t] = 0)
       THEN /\ Raise(t, DictChanged)
            /\ UNCHANGED <<sweep_vars>>
       ELSE IF rest = {}
       THEN /\ Goto(t, "sw_del")
            /\ UNCHANGED <<sweep_vars>>
       ELSE LET k == Min(rest)
                info == file_registry[k] IN
            /\ it_pos' = [it_pos EXCEPT ![t] = k + 1]
            /\ it_len' = [it_len EXCEPT ![t] = it_len[t] - 1]
            /\ IF IsExpired(sw_now[t], info)
               THEN /\ expired_tokens' =
                         [expired_tokens EXCEPT ![t] = Append(@, k)]
                    /\ cur' = [cur EXCEPT ![t] = info]
                    /\ Goto(t, "sw_exists")
               ELSE /\ UNCHANGED <<expired_tokens, cur>>
                    /\ Goto(t, "sw_next")
            /\ UNCHANGED <<sw_now, it_size, del_pos, unlink_failed>>
    /\ UNCHANGED pure_vars
    /\ UNCHANGED <<file_registry, disk, now, next_token, payload, token,
                   file_info, history_vars>>

\* main.py:97: filepath.exists()
cleanup_exists(t) ==
    /\ pc[t] = "sw_exists"
    /\ Goto(t, IF cur[t].filepath \in disk THEN "sw_unlink" ELSE "sw_next")
    /\ UNCHANGED pure_vars
    /\ UNCHANGED <<file_registry, disk, now, next_token, sweep_vars, payload,
                   token, file_info, history_vars>>

\* cleanup_unlink with the try around the whole loop: the error of a failed
\* unlink leaves cleanup_expired_files
cleanup_unlink_uncaught(t) ==
    /\ pc[t] = "sw_unlink"
    /\ \E deleted \in BOOLEAN :
          IF cur[t].filepath \in disk /\ deleted
          THEN /\ disk' = disk \ {cur[t].filepath}
               /\ Goto(t, "sw_next")
               /\ UNCHANGED unlink_failed
          ELSE /\ unlink_failed' =
                     [unlink_failed EXCEPT ![t] = @ \cup {cur[t].filepath}]
               /\ Raise(t, "OSError")
               /\ UNCHANGED disk
    /\ UNCHANGED pure_vars
    /\ UNCHANGED <<file_registry, now, next_token, sw_now, expired_tokens,
                   it_size, it_len, it_pos, cur, del_pos, payload, token,
                   file_info, history_vars>>

\* main.py:98-101: filepath.unlink(); whatever it raises is logged and the
\* loop goes on
cleanup_unlink(t) ==
    /\ pc[t] = "sw_unlink"
    /\ \E deleted \in BOOLEAN :
          IF cur[t].filepath \in disk /\ deleted
          THEN /\ disk' = disk \ {cur[t].filepath}
               /\ UNCHANGED unlink_failed
          ELSE /\ unlink_failed' =
                     [unlink_failed EXCEPT ![t] = @ \cup {cur[t].filepath}]
               /\ UNCHANGED disk
    /\ Goto(t, "sw_next")
    /\ UNCHANGED pure_vars
    /\ UNCHANGED <<file_registry, now, next_token, sw_now, expired_tokens,
                   it_size, it_len, it_pos, cur, del_pos, payload, token,
                   file_info, history_vars>>

\* cleanup_del without the second loop: the collected entries stay registered
cleanup_del_skipped(t) ==
    /\ pc[t] = "sw_del"
    /\ Goto(t, AfterCleanup(t))
    /\ UNCHANGED pure_vars
    /\ UNCHANGED <<file_registry, disk, now, next_token, sweep_vars, payload,
                   token, file_info, history_vars>>

\* main.py:104-105: del file_registry[token] for each collected token, then
\* the return
cleanup_del(t) ==
    /\ pc[t] = "sw_del"
    /\ IF del_pos[t] > Len(expired_tokens[t])
       THEN /\ Goto(t, AfterCleanup(t))
            /\ UNCHANGED <<file_registry, del_pos>>
       ELSE LET k == expired_tokens[t][del_pos[t]] IN
            IF k \notin DOMAIN file_registry
            THEN /\ Raise(t, KeyError105)
                 /\ UNCHANGED <<file_registry, del_pos>>
            ELSE /\ file_registry' = Del(file_registry, k)
                 /\ del_pos' = [del_pos EXCEPT ![t] = @ + 1]
                 /\ Goto(t, "sw_del")
    /\ UNCHANGED pure_vars
    /\ UNCHANGED <<disk, now, next_token, sw_now, expired_tokens, it_size,
                   it_len, it_pos, cur, unlink_failed, payload, token,
                   file_info, history_vars>>

\* --------------------------------------------------------------- gerar_xlsx

\* the verdicts of validate_payload (main.py:189-204)
Verdicts == {"OK", "VALIDATION_ERROR", "MAX_ROWS_EXCEEDED"}

\* the payloads a caller can send, as far as the handlers' use of the registry
\* and the disk goes: the artifact's file name follows from the project name
\* and the date (main.py:341-344); verdict is what validate_payload makes of
\* the payload
Payloads == [project : Files, verdict : Verdicts]

\* main.py:189-202: the error_response of a rejected payload
error_response(p) ==
    IF p.verdict = "MAX_ROWS_EXCEEDED" THEN MaxRowsExceeded ELSE ValidationError

\* main.py:379-383: the tool is called, and cleanup_expired_files begins
gerar_xlsx_call(p) ==
    /\ pc["mcp"] = "idle"
    /\ next_token <= MaxTokens
    /\ payload' = p
    /\ call_next' = next_token
    /\ cleanup_begin("mcp")
    /\ Goto("mcp", "sw_next")
    /\ UNCHANGED pure_vars
    /\ UNCHANGED <<file_registry, disk, now, next_token, token, file_info,
                   issued, purged, had_file>>

\* gerar_xlsx_validate turning back only the payloads with field issues: a
\* payload over the row limit goes on to generate_xlsx
gerar_xlsx_validate_rows_unchecked ==
    /\ pc["mcp"] = "g_validate"
    /\ IF payload.verdict # "VALIDATION_ERROR"
       THEN Goto("mcp", "g_save")
       ELSE Finish("mcp", error_response(payload), "none")
    /\ UNCHANGED pure_vars
    /\ UNCHANGED <<file_registry, disk, now, next_token, sweep_vars, payload,
                   token, file_info, history_vars>>

\* main.py:386-389
gerar_xlsx_validate ==
    /\ pc["mcp"] = "g_validate"
    /\ IF payload.verdict = "OK"
       THEN Goto("mcp", "g_save")
       ELSE Finish("mcp", error_response(payload), "none")
    /\ UNCHANGED pure_vars
    /\ UNCHANGED <<file_registry, disk, now, next_token, sweep_vars, payload,
                   token, file_info, history_vars>>

\* main.py:392 (generate_xlsx, main.py:347 wb.save): the file is written, or
\* the save raises before or after it created the file
gerar_xlsx_save ==
    /\ pc["mcp"] = "g_save"
    /\ \E outcome \in {"saved", "failed", "partial"} :
          /\ disk' = IF outcome = "failed" THEN disk
                     ELSE disk \cup {payload.project}
          /\ IF outcome = "saved"
             THEN Goto("mcp", "g_read")
             ELSE Raise("mcp", "IOError")
    /\ UNCHANGED pure_vars
    /\ UNCHANGED <<file_registry, now, next_token, sweep_vars, payload, token,
                   file_info, history_vars>>

\* gerar_xlsx_read with the registration moved ahead of the read-back: a
\* failed read leaves the entry registered
gerar_xlsx_read_registered_first ==
    /\ pc["mcp"] = "g_read"
    /\ LET info == [filepath |-> payload.project,
                    expires_at |-> now + TTL_MINUTES] IN
       /\ file_registry' = Put(file_registry, next_token, info)
       /\ issued' = Put(issued, next_token, info)
    /\ next_token' = next_token + 1
    /\ \E readable \in BOOLEAN :
          IF readable /\ payload.project \in disk
          THEN Finish("mcp", Generated, "none")
          ELSE Raise("mcp", "IOError")
    /\ UNCHANGED pure_vars
    /\ UNCHANGED <<disk, now, sweep_vars, payload, token, file_info, purged,
                   had_file, call_next>>

\* main.py:395-397: the file is read back
gerar_xlsx_read ==
    /\ pc["mcp"] = "g_read"
    /\ IF payload.project \notin disk
       THEN Raise("mcp", "FileNotFoundError")
       ELSE \E readable \in BOOLEAN :
               IF readable THEN Goto("mcp", "g_put")
               ELSE Raise("mcp", "IOError")
    /\ UNCHANGED pure_vars
    /\ UNCHANGED <<file_registry, disk, now, next_token, sweep_vars, payload,
                   token, file_info, history_vars>>

\* main.py:400-408: the entry is registered under a fresh token, and the
\* response is returned (main.py:410-434)
gerar_xlsx_register ==
    /\ pc["mcp"] = "g_put"
    /\ LET info == [filepath |-> payload.project,
                    expires_at |-> now + TTL_MINUTES] IN
       /\ file_registry' = Put(file_registry, next_token, info)
       /\ issued' = Put(issued, next_token, info)
    /\ next_token' = next_token + 1
    /\ Finish("mcp", Generated, "none")
    /\ UNCHANGED pure_vars
    /\ UNCHANGED <<disk, now, sweep_vars, payload, token, file_info, purged,
                   had_file, call_next>>

\* ------------------------------------------------------------------ validar

\* validar with the sweep the other handlers start with: the expired entries
\* and their files are removed before the payload is looked at
validar_call_sweeping(p) ==
    /\ pc["mcp"] = "idle"
    /\ payload' = p
    /\ call_next' = next_token
    /\ LET expired == {k \in DOMAIN file_registry :
                          IsExpired(now, file_registry[k])} IN
       /\ file_registry' = [k \in DOMAIN file_registry \ expired |->
                                file_registry[k]]
       /\ disk' = disk \ {file_registry[k].filepath : k \in expired}
    /\ Finish("mcp", IF p.verdict = "OK" THEN Validated ELSE error_response(p),
              "none")
    /\ UNCHANGED pure_vars
    /\ UNCHANGED <<now, next_token, sweep_vars, token, file_info, issued,
                   purged, had_file>>

\* main.py:445-489: the tool is called and returns.  It reads its argument
\* only: neither cleanup_expired_files nor file_registry nor OUTPUT_DIR
\* appears in it.
validar_call(p) ==
    /\ pc["mcp"] = "idle"
    /\ payload' = p
    /\ call_next' = next_token
    /\ Finish("mcp", IF p.verdict = "OK" THEN Validated ELSE error_response(p),
              "none")
    /\ UNCHANGED pure_vars
    /\ UNCHANGED <<file_registry, disk, now, next_token, sweep_vars, token,
                   file_info, issued, purged, had_file>>

\* ------------------------------------------------------------ download_file

\* the tokens a caller can present: those handed out so far (main.py:84: a
\* token has 256 random bits and cannot be guessed ahead), and a forged one
Requestable == {Forged} \cup DOMAIN issued

\* download_file without its cleanup_expired_files: the lookup is made on the
\* registry as the request found it
download_file_call_unswept(k) ==
    /\ pc["http"] = "idle"
    /\ token' = k
    /\ had_file' = (/\ k \in DOMAIN file_registry
                    /\ file_registry[k].filepath \in disk)
    /\ sw_now' = [sw_now EXCEPT !["http"] = now]
    /\ Goto("http", "f_lookup")
    /\ UNCHANGED pure_vars
    /\ UNCHANGED <<file_registry, disk, now, next_token, expired_tokens,
                   it_size, it_len, it_pos, cur, del_pos, unlink_failed,
                   payload, file_info, issued, purged, call_next>>

\* main.py:522-528: the endpoint is called, and cleanup_expired_files begins
download_file_call(k) ==
    /\ pc["http"] = "idle"
    /\ token' = k
    /\ had_file' = (/\ k \in DOMAIN file_registry
                    /\ file_registry[k].filepath \in disk)
    /\ cleanup_begin("http")
    /\ Goto("http", "sw_next")
    /\ UNCHANGED pure_vars
    /\ UNCHANGED <<file_registry, disk, now, next_token, payload, file_info,
                   issued, purged, call_next>>

\* main.py:531-533
download_file_lookup ==
    /\ pc["http"] = "f_lookup"
    /\ IF token \in DOMAIN file_registry
       THEN Goto("http", "f_get")
       ELSE Finish("http", NotFoundOrExpired, "none")
    /\ UNCHANGED pure_vars
    /\ UNCHANGED <<file_registry, disk, now, next_token, sweep_vars, payload,
                   token, file_info, history_vars>>

\* main.py:535-539: file_registry[token], and filepath.exists()
download_file_get ==
    /\ pc["http"] = "f_get"
    /\ IF token \notin DOMAIN file_registry
       THEN /\ Raise("http", KeyError535)
            /\ UNCHANGED file_info
       ELSE /\ file_info' = file_registry[token]
            /\ Goto("http", IF file_registry[token].filepath \in disk
                            THEN "f_send" ELSE "f_purge")
    /\ UNCHANGED pure_vars
    /\ UNCHANGED <<file_registry, disk, now, next_token, sweep_vars, payload,
                   token, issued, purged, had_file, call_next>>

\* download_file_purge without the del: the entry of the missing file stays
download_file_purge_keeps_entry ==
    /\ pc["http"] = "f_purge"
    /\ Finish("http", NotFoundOnDisk, "none")
    /\ UNCHANGED pure_vars
    /\ UNCHANGED <<file_registry, disk, now, next_token, sweep_vars, payload,
                   token, file_info, history_vars>>

\* main.py:540-542
download_file_purge ==
    /\ pc["http"] = "f_purge"
    /\ IF token \notin DOMAIN file_registry
       THEN /\ Raise("http", KeyError541)
            /\ UNCHANGED <<file_registry, purged>>
       ELSE /\ file_registry' = Del(file_registry, token)
            /\ purged' = purged \cup {token}
            /\ Finish("http", NotFoundOnDisk, "none")
    /\ UNCHANGED pure_vars
    /\ UNCHANGED <<disk, now, next_token, sweep_vars, payload, token,
                   file_info, issued, had_file, call_next>>

\* main.py:547-554: the FileResponse is returned and the framework delivers
\* the file from its path; a file gone by then fails the delivery
download_file_send ==
    /\ pc["http"] = "f_send"
    /\ IF file_info.filepath \in disk
       THEN Finish("http", Served, "none")
       ELSE Finish("http", ServerError, FileGone)
    /\ UNCHANGED pure_vars
    /\ UNCHANGED <<file_registry, disk, now, next_token, sweep_vars, payload,
                   token, file_info, history_vars>>

\* -------------------------------------------------------------- environment

\* the caller has its answer; the thread's locals are gone
Return(t) ==
    /\ pc[t] = "done"
    /\ pc' = [pc EXCEPT ![t] = "idle"]
    /\ result' = [result EXCEPT ![t] = NoResult]
    /\ exc' = [exc EXCEPT ![t] = "none"]
    /\ sw_now' = [sw_now EXCEPT ![t] = 0]
    /\ expired_tokens' = [expired_tokens EXCEPT ![t] = <<>>]
    /\ it_size' = [it_size EXCEPT ![t] = 0]
    /\ it_len' = [it_len EXCEPT ![t] = 0]
    /\ it_pos' = [it_pos EXCEPT ![t] = 0]
    /\ cur' = [cur EXCEPT ![t] = NoInfo]
    /\ del_pos' = [del_pos EXCEPT ![t] = 0]
    /\ unlink_failed' = [unlink_failed EXCEPT ![t] = {}]
    /\ payload' = IF t = "mcp" THEN NoPayload ELSE payload
    /\ token' = IF t = "http" THEN 0 ELSE token
    /\ file_info' = IF t = "http" THEN NoInfo ELSE file_info
    /\ had_file' = IF t = "http" THEN FALSE ELSE had_file
    /\ call_next' = IF t = "mcp" THEN 0 ELSE call_next
    /\ UNCHANGED pure_vars
    /\ UNCHANGED <<file_registry, disk, now, next_token, issued, purged>>

\* the clock advances
Tick ==
    /\ now < MaxTime
    /\ now' = now + 1
    /\ UNCHANGED pure_vars
    /\ UNCHANGED <<file_registry, disk, next_token, pc, sweep_vars, payload,
                   token, file_info, result, exc, history_vars>>

\* ------------------------------------------------------------ Python values

\* round(x) of a float x = num / den, den > 0: the nearest integer, and of
\* two equally near ones the even one (main.py:74, main.py:284)
round(num, den) ==
    LET q == num \div den
        r == num % den
    IN  IF 2 * r < den THEN q
        ELSE IF 2 * r > den THEN q + 1
        ELSE IF q % 2 = 0 THEN q ELSE q + 1

\* round(hours, 4), in ten-thousandths of an hour (main.py:284, 421, 475)
round_4(hours) == round(hours * 10000, PerHour)

\* a str is the sequence of its characters
Digits == <<"0", "1", "2", "3", "4", "5", "6", "7", "8", "9">>

\* f"{n:d}" (main.py:80)
RECURSIVE format_d(_)
format_d(n) ==
    IF n < 10 THEN <<Digits[n + 1]>>
    ELSE format_d(n \div 10) \o <<Digits[(n % 10) + 1]>>

\* f"{n:02d}" (main.py:80)
format_02d(n) == IF n < 10 THEN <<"0">> \o format_d(n) ELSE format_d(n)

\* hours_to_duration_display with the hours taken modulo the day
hours_to_duration_display_wrapped(hours) ==
    LET clamped == IF hours < 0 THEN 0 ELSE hours
        total_seconds == round(clamped * 3600, PerHour)
        h == (total_seconds \div 3600) % 24
        m == (total_seconds % 3600) \div 60
        s == total_seconds % 60
    IN  format_d(h) \o <<":">> \o format_02d(m) \o <<":">> \o format_02d(s)

\* main.py:66-80
hours_to_duration_display(hours) ==
    LET clamped == IF hours < 0 THEN 0 ELSE hours
        total_seconds == round(clamped * 3600, PerHour)
        h == total_seconds \div 3600
        m == (total_seconds % 3600) \div 60
        s == total_seconds % 60
    IN  format_d(h) \o <<":">> \o format_02d(m) \o <<":">> \o format_02d(s)

\* the members of the payload's JSON objects, as the code tells them apart:
\* a member that is not there, one of the wrong type (a string that is no
\* number, a value that is no list), a number, a list
Absent    == [json |-> "absent", value |-> 0]
Text      == [json |-> "string", value |-> 0]
Number(n) == [json |-> "number", value |-> n]
NoList    == [json |-> "absent", items |-> <<>>]
NonList   == [json |-> "string", items |-> <<>>]
List(s)   == [json |-> "array", items |-> s]

SeqUpTo(S, n) == UNION {[1..k -> S] : k \in 0..n}

\* a name that is missing and a name that is empty are the same to
\* `not x.get("name")`: both are ""
Names(n) == {"", n}

Micros == [name : Names("T1"),
           hours : {Absent, Text} \cup {Number(n) : n \in (-1)..MaxHours}]

Macros == [name : Names("M1"),
           micros : {NoList, NonList}
                       \cup {List(s) : s \in SeqUpTo(Micros, MaxMicros)}]

Projects == {[json |-> "absent", name |-> ""]}
               \cup {[json |-> "object", name |-> n] : n \in Names("Alpha")}

\* settings, a missing one being one without members (main.py:181, 215)
Settings == [max_rows : {Absent, Number(MAX_ROWS - 2), Number(MAX_ROWS + 2)},
             include_project_row : {"true", "false"}]

\* the micros of the macros of a list
RECURSIVE Leaves(_, _)
Leaves(macros, n) ==
    IF n = 0 THEN 0
    ELSE Leaves(macros, n - 1) + Len(macros[n].micros.items)

MacroLists ==
    {s \in SeqUpTo(Macros, MaxMacros) : Leaves(s, Len(s)) <= MaxLeaves}

\* the payloads validate_payload is written for
PayloadTrees ==
    [project : Projects,
     macros : {NoList, NonList} \cup {List(s) : s \in MacroLists},
     settings : Settings]

\* ---------------------------------------------------------- validate_payload

error(field, issue) == [field |-> field, issue |-> issue]

\* main.py:150-178: the checks of one micro
micro_errors(idx, midx, micro) ==
    LET at == "macros[" \o ToString(idx) \o "].micros[" \o ToString(midx)
                 \o "]"
    IN  (IF micro.name = ""
         THEN <<error(at \o ".name", "nome da micro obrigatorio")>>
         ELSE <<>>)
        \o (IF micro.hours.json = "absent"
            THEN <<error(at \o ".hours", "hours obrigatorio")>>
            ELSE IF micro.hours.json # "number"
            THEN <<error(at \o ".hours", "hours deve ser numerico")>>
            ELSE IF micro.hours.value <= 0
            THEN <<error(at \o ".hours", "hours deve ser maior que 0")>>
            ELSE <<>>)

\* main.py:150: the loop over the first n micros of macro idx
RECURSIVE micros_errors(_, _, _)
micros_errors(idx, micros, n) ==
    IF n = 0 THEN <<>>
    ELSE micros_errors(idx, micros, n - 1)
            \o micro_errors(idx, n - 1, micros[n])

\* has_micros without the length test: an empty list of micros passes
has_micros_unless_empty(macro) == macro.micros.json = "array"

\* main.py:141, negated
has_micros(macro) ==
    macro.micros.json = "array" /\ Len(macro.micros.items) # 0

\* macro_errors stopping at the first issue of the macro: a macro without
\* name is not looked into
macro_errors_first_only(idx, macro) ==
    IF macro.name = ""
    THEN <<error("macros[" \o ToString(idx) \o "].name",
                 "nome da macro obrigatorio")>>
    ELSE IF ~has_micros(macro)
    THEN <<error("macros[" \o ToString(idx) \o "].micros",
                 "macro SEMPRE deve conter pelo menos 1 micro")>>
    ELSE micros_errors(idx, macro.micros.items, Len(macro.micros.items))

\* main.py:136-178: the checks of one macro
macro_errors(idx, macro) ==
    (IF macro.name = ""
     THEN <<error("macros[" \o ToString(idx) \o "].name",
                  "nome da macro obrigatorio")>>
     ELSE <<>>)
    \o (IF ~has_micros(macro)
        THEN <<error("macros[" \o ToString(idx) \o "].micros",
                     "macro SEMPRE deve conter pelo menos 1 micro")>>
        ELSE micros_errors(idx, macro.micros.items,
                           Len(macro.micros.items)))

\* main.py:135: the loop over the first n macros
RECURSIVE macros_errors(_, _)
macros_errors(macros, n) ==
    IF n = 0 THEN <<>>
    ELSE macros_errors(macros, n - 1) \o macro_errors(n - 1, macros[n])

\* main.py:133, 148, 151: total_rows after the first n macros
RECURSIVE total_rows(_, _)
total_rows(macros, n) ==
    IF n = 0 THEN 1
    ELSE total_rows(macros, n - 1)
            + (IF has_micros(macros[n])
               THEN 1 + Len(macros[n].micros.items) ELSE 0)

\* main.py:181-182
max_rows_limit(tree) ==
    IF tree.settings.max_rows.json = "absent" THEN MAX_ROWS
    ELSE tree.settings.max_rows.value

None == [ok |-> TRUE, error_code |-> "", message |-> "", details |-> <<>>]

\* main.py:111-204
validate_payload(tree) ==
    LET project_errors ==
            IF tree.project.json = "absent"
            THEN <<error("project", "campo obrigatorio")>>
            ELSE IF tree.project.name = ""
            THEN <<error("project.name", "nome do projeto obrigatorio")>>
            ELSE <<>>
        macros == tree.macros
        rows   == total_rows(macros.items, Len(macros.items))
        limit  == max_rows_limit(tree)
        errors ==
            project_errors
            \o (IF macros.json = "absent"
                THEN <<error("macros", "campo obrigatorio")>>
                ELSE IF macros.json # "array" \/ Len(macros.items) = 0
                THEN <<error("macros", "deve conter pelo menos 1 macro")>>
                ELSE macros_errors(macros.items, Len(macros.items)))
    IN  IF macros.json = "array" /\ Len(macros.items) # 0 /\ rows > limit
        THEN [is_valid |-> FALSE,
              error_response |->
                 [ok |-> FALSE, error_code |-> "MAX_ROWS_EXCEEDED",
                  message |-> "O cronograma possui " \o ToString(rows)
                                \o " linhas, excedendo o limite de "
                                \o ToString(limit),
                  details |-> errors
                     \o <<error("total_rows",
                                "total de linhas (" \o ToString(rows)
                                   \o ") excede o limite ("
                                   \o ToString(limit) \o ")")>>]]
        ELSE IF errors # <<>>
        THEN [is_valid |-> FALSE,
              error_response |->
                 [ok |-> FALSE, error_code |-> "VALIDATION_ERROR",
                  message |-> "Erro de validacao no payload",
                  details |-> errors]]
        ELSE [is_valid |-> TRUE, error_response |-> None]

\* ----------------------------------------------------------- specifications

McpStep ==
    \/ \E p \in Payloads : gerar_xlsx_call(p)
    \/ cleanup_next("mcp")
    \/ cleanup_exists("mcp")
    \/ cleanup_unlink("mcp")
    \/ cleanup_del("mcp")
    \/ gerar_xlsx_validate
    \/ gerar_xlsx_save
    \/ gerar_xlsx_read
    \/ gerar_xlsx_register
    \/ \E p \in Payloads : validar_call(p)
    \/ Return("mcp")

HttpStep ==
    \/ \E k \in Requestable : download_file_call(k)
    \/ cleanup_next("http")
    \/ cleanup_exists("http")
    \/ cleanup_unlink("http")
    \/ cleanup_del("http")
    \/ download_file_lookup
    \/ download_file_get
    \/ download_file_purge
    \/ download_file_send
    \/ Return("http")

\* the process as it runs: the two threads interleave freely (main.py:586-592)
Next == Tick \/ McpStep \/ HttpStep

Spec == Init /\ [][Next]_vars

\* the same steps with the requests served one at a time: a thread moves only
\* while the other is idle
Serial(t, step) == pc[Other(t)] = "idle" /\ step

NextSeq ==
    \/ Tick
    \/ \E p \in Payloads : Serial("mcp", gerar_xlsx_call(p))
    \/ Serial("mcp", cleanup_next("mcp"))
    \/ Serial("mcp", cleanup_exists("mcp"))
    \/ Serial("mcp", cleanup_unlink("mcp"))
    \/ Serial("mcp", cleanup_del("mcp"))
    \/ Serial("mcp", gerar_xlsx_validate)
    \/ Serial("mcp", gerar_xlsx_save)
    \/ Serial("mcp", gerar_xlsx_read)
    \/ Serial("mcp", gerar_xlsx_register)
    \/ \E p \in Payloads : Serial("mcp", validar_call(p))
    \/ Serial("mcp", Return("mcp"))
    \/ \E k \in Requestable : Serial("http", download_file_call(k))
    \/ Serial("http", cleanup_next("http"))
    \/ Serial("http", cleanup_exists("http"))
    \/ Serial("http", cleanup_unlink("http"))
    \/ Serial("http", cleanup_del("http"))
    \/ Serial("http", download_file_lookup)
    \/ Serial("http", download_file_get)
    \/ Serial("http", download_file_purge)
    \/ Serial("http", download_file_send)
    \/ Serial("http", Return("http"))

SeqSpec == Init /\ [][NextSeq]_vars

\* a started handler runs on: the threads are scheduled, and the clock moves.
\* Nothing obliges a caller to send a request.
McpRun ==
    \/ cleanup_next("mcp") \/ cleanup_exists("mcp") \/ cleanup_unlink("mcp")
    \/ cleanup_del("mcp") \/ gerar_xlsx_validate \/ gerar_xlsx_save
    \/ gerar_xlsx_read \/ gerar_xlsx_register \/ Return("mcp")

HttpRun ==
    \/ cleanup_next("http") \/ cleanup_exists("http") \/ cleanup_unlink("http")
    \/ cleanup_del("http") \/ download_file_lookup \/ download_file_get
    \/ download_file_purge \/ download_file_send \/ Return("http")

FairSpec ==
    Init /\ [][Next]_vars
         /\ WF_vars(McpRun) /\ WF_vars(HttpRun) /\ WF_vars(Tick)

\* ------------------------------------------------ generate_xlsx and validar

\* main.py:272-278: macro_total_hours after the first n micros
RECURSIVE macro_total_hours(_, _)
macro_total_hours(micros, n) ==
    IF n = 0 THEN 0
    ELSE macro_total_hours(micros, n - 1) + micros[n].hours.value

\* main.py:282-287
macro_summary(macro) ==
    LET total == macro_total_hours(macro.micros.items,
                                   Len(macro.micros.items))
    IN  [name |-> macro.name,
         hours |-> round_4(total),
         duration_display |-> hours_to_duration_display(total),
         micro_count |-> Len(macro.micros.items)]

\* project_total_hours assigned, not added to: the total of the last macro
project_total_hours_last(macros, n) ==
    IF n = 0 THEN 0
    ELSE macro_total_hours(macros[n].micros.items,
                           Len(macros[n].micros.items))

\* main.py:268-280: project_total_hours after the first n macros
RECURSIVE project_total_hours(_, _)
project_total_hours(macros, n) ==
    IF n = 0 THEN 0
    ELSE project_total_hours(macros, n - 1)
            + macro_total_hours(macros[n].micros.items,
                                Len(macros[n].micros.items))

\* main.py:353: sum(m["micro_count"] for m in macro_summaries)
RECURSIVE summary_micro_count(_, _)
summary_micro_count(macro_summaries, n) ==
    IF n = 0 THEN 0
    ELSE summary_micro_count(macro_summaries, n - 1)
            + macro_summaries[n].micro_count

\* main.py:210-357: the summary and the project_total_hours generate_xlsx
\* returns (the file it writes is gerar_xlsx_save's)
generate_xlsx(tree) ==
    LET macros == tree.macros.items
        macro_summaries == [i \in 1..Len(macros) |-> macro_summary(macros[i])]
    IN  [summary |->
            [macro_count |-> Len(macros),
             micro_count |-> summary_micro_count(macro_summaries,
                                                 Len(macros)),
             macros |-> macro_summaries],
         project_total_hours |-> project_total_hours(macros, Len(macros))]

\* main.py:386-392, 414-429: what gerar_xlsx answers when the sweep and the
\* file steps went through
gerar_xlsx_response(tree) ==
    LET v == validate_payload(tree)
        g == generate_xlsx(tree)
    IN  IF ~v.is_valid THEN v.error_response
        ELSE [ok |-> TRUE,
              project_name |-> tree.project.name,
              project_total_hours |-> round_4(g.project_total_hours),
              project_total_duration_display |->
                 hours_to_duration_display(g.project_total_hours),
              summary |-> g.summary]

\* main.py:465-468: the inner loop, from the total so far
RECURSIVE add_hours(_, _, _)
add_hours(total, micros, n) ==
    IF n = 0 THEN total
    ELSE add_hours(total, micros, n - 1) + micros[n].hours.value

\* main.py:460-468: project_total_hours and micro_count after the first n
\* macros
RECURSIVE preview_totals(_, _)
preview_totals(macros, n) ==
    IF n = 0 THEN [project_total_hours |-> 0, micro_count |-> 0]
    ELSE LET before == preview_totals(macros, n - 1)
             micros == macros[n].micros.items
         IN  [project_total_hours |->
                 add_hours(before.project_total_hours, micros, Len(micros)),
              micro_count |-> before.micro_count + Len(micros)]

\* main.py:445-489
validar(tree) ==
    LET v == validate_payload(tree)
        t == preview_totals(tree.macros.items, Len(tree.macros.items))
    IN  IF ~v.is_valid THEN v.error_response
        ELSE [ok |-> TRUE,
              message |-> "Payload valido",
              preview |->
                 [project_name |-> tree.project.name,
                  project_total_hours |-> round_4(t.project_total_hours),
                  project_total_duration_display |->
                     hours_to_duration_display(t.project_total_hours),
                  macro_count |-> Len(tree.macros.items),
                  micro_count |-> t.micro_count]]

\* ------------------------------------------------- the functions on their own

\* the hours values hours_to_duration_display is called with, two at a time
HoursPairs ==
    {<<a, b>> \in ((-2)..MaxDuration) \X ((-2)..MaxDuration) :
        a <= b /\ b <= a + MaxGap}

\* a fresh process, and the arguments of one call
PureInit ==
    /\ InitProcess
    /\ retval = NoRetval
    /\ \/ \E tree \in PayloadTrees : args = [of |-> "payload", tree |-> tree]
       \/ \E h \in HoursPairs : args = [of |-> "hours", a |-> h[1], b |-> h[2]]

\* the tool validar is called with the payload
call_validar ==
    /\ args.of = "payload"
    /\ retval.fn = "none"
    /\ retval' = [fn |-> "validar", value |-> validar(args.tree)]
    /\ UNCHANGED <<args, process_vars>>

\* the tool gerar_xlsx is called with the payload
call_gerar_xlsx ==
    /\ args.of = "payload"
    /\ retval.fn = "none"
    /\ retval' = [fn |-> "gerar_xlsx", value |-> gerar_xlsx_response(args.tree)]
    /\ UNCHANGED <<args, process_vars>>

\* hours_to_duration_display is called with each of the two hours values
call_hours_to_duration_display ==
    /\ args.of = "hours"
    /\ retval.fn = "none"
    /\ retval' = [fn |-> "hours_to_duration_display",
                  a |-> hours_to_duration_display(args.a),
                  b |-> hours_to_duration_display(args.b)]
    /\ UNCHANGED <<args, process_vars>>

PureNext ==
    \/ call_validar
    \/ call_gerar_xlsx
    \/ call_hours_to_duration_display

PureSpec == PureInit /\ [][PureNext]_vars

\* ------------------------------------------------------------------ helpers

Range(s) == {s[i] : i \in 1..Len(s)}

\* the two loops of cleanup_expired_files
ScanPcs  == {"sw_next", "sw_exists", "sw_unlink"}
SweepPcs == ScanPcs \cup {"sw_del"}

\* cleanup_expired_files has just returned to the handler of thread t
Swept(t) == pc[t] = AfterCleanup(t)

\* the entries registered under token k by now, if any, are past expiry at n
ExpiredAt(k, n) == k \in DOMAIN issued /\ IsExpired(n, issued[k])

\* the handler the mcp thread is in is gerar_xlsx: of the two tools only
\* gerar_xlsx runs cleanup_expired_files
Generating == pc["mcp"] # "idle" /\ it_pos["mcp"] # 0

\* ------------------------------------------------------------------- claims

\* C1: once the clock is past an entry's expires_at and a sweep has then run,
\* the entry is gone from the registry, a download of its token answers 404,
\* and its backing file is no longer on disk.
C1_ExpiredSweptGone ==
    /\ \A t \in Threads :
          Swept(t) =>
             \A k \in Range(expired_tokens[t]) :
                /\ k \notin DOMAIN file_registry
                /\ issued[k].filepath \notin disk
    /\ (pc["http"] = "done" /\ ExpiredAt(token, sw_now["http"]))
          => result["http"].code = "404"

\* C2: registry accesses are mutually exclusive: no entry is inserted while
\* the other thread scans the registry, no lookup sees an entry a sweep has
\* collected and not yet removed, and no operation fails because the dict
\* changed under it.
PartlyRemoved(k) ==
    \E t \in Threads :
       /\ pc[t] \in SweepPcs
       /\ k \in Range(expired_tokens[t])
       /\ k \in DOMAIN file_registry

C2_Step ==
    /\ next_token' # next_token => pc["http"] \notin ScanPcs
    /\ (pc["http"] \in {"f_lookup", "f_get"} /\ pc'["http"] # pc["http"])
          => ~PartlyRemoved(token)
    /\ \A t \in Threads : exc'[t] \notin MapErrors

C2_MutualExclusion == [][C2_Step]_vars

\* C3: while a download is being delivered, the file it delivers stays on
\* disk: no sweep deletes it before the delivery has completed.
C3_NoSweepDuringDownload ==
    pc["http"] = "f_send" => file_info.filepath \in disk

\* C4: between requests every file in the output directory is the filepath
\* of at least one registry entry.
C4_NoLeak ==
    (\A t \in Threads : pc[t] = "idle") =>
       \A f \in disk : \E k \in DOMAIN file_registry :
          file_registry[k].filepath = f

C6_ReusableUntilExpiry ==
    (/\ pc["http"] = "done"
     /\ had_file
     /\ ~IsExpired(sw_now["http"], issued[token]))
       => /\ result["http"] = Served
          /\ token \in DOMAIN file_registry
          /\ file_registry[token] = issued[token]

SweepOver(t) == pc[t] \notin SweepPcs \cup {"idle"}

C9_ExpiredEventuallyRemoved ==
    \A k \in Tokens :
       (k \in DOMAIN file_registry /\ IsExpired(now, file_registry[k]))
          ~> (k \notin DOMAIN file_registry)

\* C10: gerar_xlsx registers its entry only as its last step, after the
\* artifact was saved and read back; a call that ends in an exception
\* answers INTERNAL_ERROR and has registered nothing.
C10_RegisteredLast ==
    pc["mcp"] # "idle" =>
       /\ next_token # call_next
             => /\ pc["mcp"] = "done"
                /\ result["mcp"] = Generated
                /\ exc["mcp"] = "none"
       /\ (pc["mcp"] = "done" /\ exc["mcp"] # "none")
             => /\ result["mcp"].code = "INTERNAL_ERROR"
                /\ next_token = call_next
                /\ \A k \in DOMAIN file_registry : k < call_next

\* gerar_xlsx failed after the artifact file was written
C10_Witness ==
    /\ pc["mcp"] = "done"
    /\ exc["mcp"] = "IOError"
    /\ payload.project \in disk
    /\ result["mcp"].code = "INTERNAL_ERROR"
    /\ next_token = call_next

\* C11: a gerar_xlsx call whose payload validate_payload rejects, with
\* VALIDATION_ERROR or with MAX_ROWS_EXCEEDED, returns that error; none of
\* its steps writes a file (the save is never reached), adds a file to the
\* output directory or adds an entry to the registry.
Rejected(p) == p.verdict \in {"VALIDATION_ERROR", "MAX_ROWS_EXCEEDED"}

C11_Step ==
    (Rejected(payload') /\ Generating') =>
       /\ pc'["mcp"] \notin {"g_save", "g_read", "g_put"}
       /\ disk' \subseteq disk
       /\ DOMAIN file_registry' \subseteq DOMAIN file_registry
       /\ next_token' = next_token
       /\ pc'["mcp"] = "done" =>
             /\ result'["mcp"].ok = FALSE
             /\ result'["mcp"].code = payload'.verdict

C12_Step ==
    (pc["mcp"] = "idle" /\ pc'["mcp"] = "done") =>
       /\ file_registry' = file_registry
       /\ disk' = disk

C12_ValidateTouchesNothing == [][C12_Step]_vars

\* validar has returned while the registry holds an expired entry whose file
\* is on disk
C12_Witness ==
    /\ pc["mcp"] = "done"
    /\ ~Generating
    /\ result["mcp"] = Validated
    /\ \E k \in DOMAIN file_registry :
          /\ IsExpired(now, file_registry[k])
          /\ file_registry[k].filepath \in disk

\* ---------------------------------------------- claims about the functions

\* one of the two tools was called with a payload and has answered
Answered == args.of = "payload" /\ retval.fn \in {"validar", "gerar_xlsx"}

\* the macros of the payload, none when macros is missing or no list
TheMacros == args.tree.macros.items

\* the fields the details of an answer name
Fields(answer) == {answer.details[d].field : d \in 1..Len(answer.details)}

\* the dotted paths of the nodes, counted from 0 as the answer counts them
MacroPath(i) == "macros[" \o ToString(i - 1) \o "]"
MicroPath(i, j) == MacroPath(i) \o ".micros[" \o ToString(j - 1) \o "]"

\* the micros member of a macro is missing, no list, or an empty list
NoMicros(macro) == macro.micros.json # "array" \/ macro.micros.items = <<>>

\* C13: for every payload in which some macro i has missing, non-list or
\* empty micros, validar and gerar_xlsx answer ok = false with a detail whose
\* field is macros[i].micros, whatever the project, the other macros and the
\* settings (max_rows, include_project_row) are.
C13_MacroWithoutMicrosRejected ==
    Answered =>
       \A i \in 1..Len(TheMacros) :
          NoMicros(TheMacros[i]) =>
             /\ retval.value.ok = FALSE
             /\ MacroPath(i) \o ".micros" \in Fields(retval.value)

\* gerar_xlsx has answered MAX_ROWS_EXCEEDED for a payload whose second macro
\* has an empty list of micros and whose other fields are valid, and the
\* details name that macro
C13_Witness ==
    /\ Answered
    /\ retval.fn = "gerar_xlsx"
    /\ Len(TheMacros) = 2
    /\ TheMacros[2].micros = List(<<>>)
    /\ TheMacros[2].name # ""
    /\ ~NoMicros(TheMacros[1])
    /\ args.tree.settings.include_project_row = "false"
    /\ retval.value.ok = FALSE
    /\ retval.value.error_code = "MAX_ROWS_EXCEEDED"
    /\ "macros[1].micros" \in Fields(retval.value)

\* the tree passes every check of its fields: the project and every macro
\* and micro are named, every macro has micros, all hours are numbers above 0
WellFormed(tree) ==
    /\ tree.project.json = "object" /\ tree.project.name # ""
    /\ tree.macros.json = "array" /\ tree.macros.items # <<>>
    /\ \A i \in 1..Len(tree.macros.items) :
          LET macro == tree.macros.items[i] IN
          /\ macro.name # ""
          /\ ~NoMicros(macro)
          /\ \A j \in 1..Len(macro.micros.items) :
                LET micro == macro.micros.items[j] IN
                /\ micro.name # ""
                /\ micro.hours.json = "number"
                /\ micro.hours.value > 0

\* the sum over the first n macros of 1 + the number of the macro's micros
RECURSIVE MacroRows(_, _)
MacroRows(macros, n) ==
    IF n = 0 THEN 0
    ELSE MacroRows(macros, n - 1) + 1 + Len(macros[n].micros.items)

\* the row count of a tree: the project row, if included, and the rows of
\* the macros and micros
RowCount(tree) ==
    (IF tree.settings.include_project_row = "true" THEN 1 ELSE 0)
       + MacroRows(tree.macros.items, Len(tree.macros.items))

\* C14: for every valid tree the row count checked against the ceiling is
\* 1 + the sum over the macros of (1 + number of micros) when
\* include_project_row is true, and that sum alone when it is false.
C14_RowCount ==
    (Answered /\ WellFormed(args.tree)) =>
       total_rows(TheMacros, Len(TheMacros)) = RowCount(args.tree)

\* the ceiling: settings.max_rows when the payload gives it, else MAX_ROWS
Ceiling(tree) ==
    IF tree.settings.max_rows.json = "number"
    THEN tree.settings.max_rows.value
    ELSE MAX_ROWS

\* the message that reports a row count and a limit
RowsMessage(rows, limit) ==
    "O cronograma possui " \o ToString(rows)
       \o " linhas, excedendo o limite de " \o ToString(limit)

\* C15: for a payload whose macros all have micros, with or without other
\* violations, the answer is MAX_ROWS_EXCEEDED, its message reporting the
\* row count and the ceiling, exactly when the row count is above the
\* ceiling; a row count equal to the ceiling is not rejected for rows.
C15_RowLimit ==
    (/\ Answered
     /\ TheMacros # <<>>
     /\ \A i \in 1..Len(TheMacros) : ~NoMicros(TheMacros[i])) =>
       LET rows    == RowCount(args.tree)
           ceiling == Ceiling(args.tree)
           answer  == retval.value
       IN  IF rows > ceiling
           THEN /\ answer.ok = FALSE
                /\ answer.error_code = "MAX_ROWS_EXCEEDED"
                /\ answer.message = RowsMessage(rows, ceiling)
           ELSE answer.ok \/ answer.error_code # "MAX_ROWS_EXCEEDED"

\* the hours of a micro are missing, not numeric, or not above 0
BadHours(micro) == micro.hours.json # "number" \/ micro.hours.value <= 0

\* the paths of the violations in a tree: an empty project name, and for
\* every macro an empty name, missing micros, and for every micro an empty
\* name and bad hours
Violations(tree) ==
    LET macros == tree.macros.items IN
    (IF tree.project.json = "object" /\ tree.project.name = ""
     THEN {"project.name"} ELSE {})
    \cup {MacroPath(i) \o ".name" :
            i \in {k \in 1..Len(macros) : macros[k].name = ""}}
    \cup {MacroPath(i) \o ".micros" :
            i \in {k \in 1..Len(macros) : NoMicros(macros[k])}}
    \cup UNION {{MicroPath(i, j) \o ".name" :
                   j \in {k \in 1..Len(macros[i].micros.items) :
                             macros[i].micros.items[k].name = ""}} :
                i \in 1..Len(macros)}
    \cup UNION {{MicroPath(i, j) \o ".hours" :
                   j \in {k \in 1..Len(macros[i].micros.items) :
                             BadHours(macros[i].micros.items[k])}} :
                i \in 1..Len(macros)}

\* the details of an answer that name a field
Issues(answer, field) ==
    {d \in 1..Len(answer.details) : answer.details[d].field = field}

\* C16: for a payload with any combination of violations (project name
\* empty, macro name empty, macro without micros, micro name empty, micro
\* hours missing, not numeric or not above 0) the details of the answer hold
\* one issue for each violation, under the violating node's dotted path, and
\* no issue for a node that violates nothing.
C16_AllViolationsReported ==
    Answered =>
       /\ \A f \in Violations(args.tree) :
             /\ retval.value.ok = FALSE
             /\ Cardinality(Issues(retval.value, f)) = 1
       /\ retval.value.ok = FALSE =>
             Fields(retval.value) \subseteq
                Violations(args.tree) \cup {"project", "macros", "total_rows"}

\* validar has answered for a payload with violations at every level: the
\* project name, a macro name, a micro name, hours missing and hours 0, and
\* a macro without micros
C16_Witness ==
    /\ Answered
    /\ retval.fn = "validar"
    /\ retval.value.ok = FALSE
    /\ {"project.name", "macros[0].name", "macros[0].micros[0].name",
        "macros[0].micros[0].hours", "macros[0].micros[1].hours",
        "macros[1].micros"} \subseteq Fields(retval.value)
    /\ TheMacros[1].micros.items[1].hours = Absent
    /\ TheMacros[1].micros.items[2].hours = Number(0)

\* hours_to_duration_display was called and has returned
Encoded == args.of = "hours" /\ retval.fn = "hours_to_duration_display"

\* the number a string of decimal digits denotes
IsDigit(c) == \E d \in 1..10 : Digits[d] = c
DigitValue(c) == (CHOOSE d \in 1..10 : Digits[d] = c) - 1
RECURSIVE Decimal(_)
Decimal(str) ==
    IF str = <<>> THEN 0
    ELSE 10 * Decimal(SubSeq(str, 1, Len(str) - 1)) + DigitValue(str[Len(str)])

\* the three parts of a text H:MM:SS
HPart(str)  == SubSeq(str, 1, Len(str) - 6)
MMPart(str) == SubSeq(str, Len(str) - 4, Len(str) - 3)
SSPart(str) == SubSeq(str, Len(str) - 1, Len(str))

\* the text is H:MM:SS: H a decimal number written without leading zeros,
\* MM and SS two digits each, from 00 to 59
IsDuration(str) ==
    /\ Len(str) >= 7
    /\ str[Len(str) - 5] = ":" /\ str[Len(str) - 2] = ":"
    /\ \A i \in 1..Len(str) : i \notin {Len(str) - 5, Len(str) - 2}
                                  => IsDigit(str[i])
    /\ Len(HPart(str)) > 1 => str[1] # "0"
    /\ Decimal(MMPart(str)) <= 59 /\ Decimal(SSPart(str)) <= 59

\* the seconds the text denotes
Denotes(str) ==
    Decimal(HPart(str)) * 3600 + Decimal(MMPart(str)) * 60
       + Decimal(SSPart(str))

ZeroDuration == <<"0", ":", "0", "0", ":", "0", "0">>

\* hours * 3600 rounded to the nearest second, half a second going up
RoundHalfUp(hours) == (2 * hours * 3600 + PerHour) \div (2 * PerHour)

\* C17: for every hours >= 0 the text is H:MM:SS, H not wrapped at 24, MM
\* and SS two digits from 00 to 59, and denotes hours * 3600 seconds rounded
\* half up; negative hours give 0:00:00.
C17_RoundsHalfUp ==
    Encoded =>
       \A call \in {<<args.a, retval.a>>, <<args.b, retval.b>>} :
          LET hours == call[1]
              text  == call[2]
          IN  /\ IsDuration(text)
              /\ hours >= 0 => Denotes(text) = RoundHalfUp(hours)
              /\ hours < 0 => text = ZeroDuration

\* C18: for 0 <= a <= b the seconds the text of a denotes are at most those
\* the text of b denotes, and the text of 0 is 0:00:00.
C18_Monotonic ==
    Encoded =>
       /\ (0 <= args.a /\ args.a <= args.b) =>
             /\ IsDuration(retval.a) /\ IsDuration(retval.b)
             /\ Denotes(retval.a) <= Denotes(retval.b)
       /\ args.a = 0 => retval.a = ZeroDuration
       /\ args.b = 0 => retval.b = ZeroDuration

\* two hours values on the two sides of 24 hours were encoded, the larger
\* one as 24:00:00
C18_Witness ==
    /\ Encoded
    /\ 0 <= args.a /\ args.a < args.b
    /\ retval.b = <<"2", "4", ":", "0", "0", ":", "0", "0">>
    /\ Denotes(retval.a) < Denotes(retval.b)

\* the hours of the micros of a list, added up
RECURSIVE SumHours(_)
SumHours(micros) ==
    IF micros = <<>> THEN 0
    ELSE micros[1].hours.value + SumHours(Tail(micros))

\* the totals of the macros of a list, added up
RECURSIVE SumMacroTotals(_)
SumMacroTotals(macros) ==
    IF macros = <<>> THEN 0
    ELSE SumHours(macros[1].micros.items) + SumMacroTotals(Tail(macros))

\* all the micros of the macros of a list
RECURSIVE AllMicros(_)
AllMicros(macros) ==
    IF macros = <<>> THEN <<>>
    ELSE macros[1].micros.items \o AllMicros(Tail(macros))

\* a reported total (ten-thousandths of an hour) is less than 1e-4 hours
\* away from an exact one (PerHour-ths of an hour)
Within(reported, exact) ==
    LET diff == reported * PerHour - exact * 10000
    IN  -PerHour < diff /\ diff < PerHour

\* C19: when validar or gerar_xlsx answers ok, the total of every macro in
\* the summary is the sum of the hours of its micros, the project total of
\* the answer is the sum of the macros' totals, which is the sum of the hours
\* of all micros (each within 1e-4 hours), and the payload is as it was.
C19_Step ==
    (/\ args.of = "payload"
     /\ retval.fn = "none"
     /\ retval'.fn \in {"validar", "gerar_xlsx"}
     /\ retval'.value.ok) =>
       LET macros == args.tree.macros.items
           answer == retval'.value
       IN  /\ args' = args
           /\ SumMacroTotals(macros) = SumHours(AllMicros(macros))
           /\ retval'.fn = "validar" =>
                 Within(answer.preview.project_total_hours,
                        SumMacroTotals(macros))
           /\ retval'.fn = "gerar_xlsx" =>
                 /\ Within(answer.project_total_hours, SumMacroTotals(macros))
                 /\ Len(answer.summary.macros) = Len(macros)
                 /\ \A i \in 1..Len(macros) :
                       Within(answer.summary.macros[i].hours,
                              SumHours(macros[i].micros.items))

C19_BottomUpTotals == [][C19_Step]_vars

\* gerar_xlsx has answered for two macros, the first with two micros of
\* different hours: 3/64 and 1/64 hours, 4/64 hours in all
C19_Witness ==
    /\ Answered
    /\ retval.fn = "gerar_xlsx"
    /\ retval.value.ok
    /\ Len(TheMacros) = 2
    /\ Len(TheMacros[1].micros.items) = 2
    /\ TheMacros[1].micros.items[1].hours # TheMacros[1].micros.items[2].hours
    /\ retval.value.summary.macros[1].hours = 469
    /\ retval.value.summary.macros[2].hours = 156
    /\ retval.value.project_total_hours = 625

\* another token was handed out for the same file as k
Collides(k) ==
    \E other \in DOMAIN issued :
       /\ other # k
       /\ issued[other].filepath = issued[k].filepath

\* C20: when two gerar_xlsx calls have written the same filename, a download
\* of either token made while the clock has not passed that token's own
\* expires_at is served; the sweep of the other entry does not turn it into
\* a 404.
C20_CollisionTolerant ==
    (/\ pc["http"] = "done"
     /\ token \in DOMAIN issued
     /\ Collides(token)
     /\ ~IsExpired(sw_now["http"], issued[token]))
       => result["http"] = Served

\* the codes a failure of gerar_xlsx or validar may carry
StableCodes == {"VALIDATION_ERROR", "MAX_ROWS_EXCEEDED", "INTERNAL_ERROR"}

\* the text t occurs in the string s
Contains(s, t) ==
    \E i \in 1..(Len(s) - Len(t) + 1) : SubSeq(s, i, i + Len(t) - 1) = t

\* C21: a failure answered by gerar_xlsx or validar carries one of the stable
\* codes, and when an exception ended the call the message of the answer
\* does not contain the text of that exception.
C21_NoExceptionDetail ==
    (pc["mcp"] = "done" /\ ~result["mcp"].ok) =>
       /\ result["mcp"].code \in StableCodes
       /\ exc["mcp"] # "none"
             => ~Contains(result["mcp"].detail, exc["mcp"])

\* C22: when download_file makes its lookup, no entry left in the registry
\* had expired at the moment its cleanup_expired_files read the clock; and
\* when download_file has served a file, the entry of its token had not
\* expired at that moment.
C22_NeverServesExpired ==
    /\ pc["http"] = "f_lookup"
          => \A k \in DOMAIN file_registry :
                ~IsExpired(sw_now["http"], file_registry[k])
    /\ (pc["http"] = "done" /\ result["http"] = Served)
          => /\ token \in DOMAIN issued
             /\ ~IsExpired(sw_now["http"], issued[token])

\* a download was served after its sweep had removed the expired entry of
\* another token
C22_Witness ==
    /\ pc["http"] = "done"
    /\ result["http"] = Served
    /\ ~IsExpired(sw_now["http"], issued[token])
    /\ \E k \in Range(expired_tokens["http"]) :
          /\ IsExpired(sw_now["http"], issued[k])
          /\ k \notin DOMAIN file_registry

\* the tokens the sweep of thread t has collected and not yet deleted
ToDelete(t) ==
    IF pc[t] \in SweepPcs
    THEN {expired_tokens[t][i] : i \in del_pos[t]..Len(expired_tokens[t])}
    ELSE {}

\* C23: with a sweep of gerar_xlsx and a sweep of download_file under way at
\* once, every entry a sweep has collected as expired is still registered
\* when that sweep comes to delete it, and neither handler ends in the
\* KeyError of deleting an entry that is already gone.
C23_ConcurrentSweeps ==
    \A t \in Threads :
       /\ pc[t] = "sw_del" => ToDelete(t) \subseteq DOMAIN file_registry
       /\ exc[t] # KeyError105

====
